---- MODULE Spec2Model ----
(***************************************************************************)
(* A model of src/AA20251102_seq.py: the protein property calculator.     *)
(* Python strings are TLA+ strings; an optional value (Python's None or a  *)
(* value) is the empty tuple or a one-element tuple; a call of st.error,   *)
(* st.info, st.success, st.warning or st.table appends a record to         *)
(* messages, and a call of a remote service or of one of the file's own     *)
(* functions appends a record to calls.                                    *)
(***************************************************************************)
EXTENDS Integers, Sequences, FiniteSets, TLC

VARIABLES
    pc,                  \* the position of main (or of a direct call)
    protein_input,       \* st.text_input, line 187
    protein_identifier,  \* the argument of get_protein_sequence, line 213
    truncation_input,    \* st.text_input, line 194
    tag_selection,       \* st.selectbox, line 201 (an optional string)
    uniprot_id,          \* optional string
    sequence,            \* optional string
    truncation_range,    \* optional [start, end], end optional
    processed_sequence,  \* optional string
    mw,                  \* optional: the properties computed at line 232
    summary_data,        \* the rows of the length summary, lines 247-261
    messages,            \* what the run displayed, in order
    calls                \* the functions and remote services called, in order

vars == <<pc, protein_input, protein_identifier, truncation_input,
          tag_selection, uniprot_id, sequence, truncation_range,
          processed_sequence, mw, summary_data, messages, calls>>

-----------------------------------------------------------------------------
(* Bounds *)

MaxSeqLen == 3

MaxRangeLen == 5

MaxPipelineRangeLen == 3

MaxFastaLen == 5

MaxSuffixLen == 1

-----------------------------------------------------------------------------
(* Python values *)

None == <<>>

Some(x) == <<x>>

Truthy(opt) == opt # None /\ opt[1] # ""

Char(s, i) == SubSeq(s, i, i)

Msg(level, key, args) == [level |-> level, key |-> key, args |-> args]

\* what a call answered: kind is "local" (a function of this file), "raise"
\* (an exception), "ok" (a record read, text its sequence) or "response" (an
\* HTTP response with its status code and text)
Outcome(kind, status, text) == [kind |-> kind, status |-> status, text |-> text]

Local == Outcome("local", 0, "")

Raise == Outcome("raise", 0, "")

Call(fn, arg, outcome) == [fn |-> fn, arg |-> arg, outcome |-> outcome]

RECURSIVE StringsOver(_, _)
StringsOver(alphabet, n) ==
    IF n = 0 THEN {""}
    ELSE LET shorter == StringsOver(alphabet, n - 1)
         IN  shorter \cup {s \o c : s \in {p \in shorter : Len(p) = n - 1},
                                   c \in alphabet}

-----------------------------------------------------------------------------
(* re.findall(r'\d+', text) and int() *)

Digits == {"0", "1", "2", "3", "4", "5", "6", "7", "8", "9"}

DigitValue(c) == CHOOSE d \in 0..9 : Char("0123456789", d + 1) = c

RECURSIVE int(_)
int(run) ==
    IF run = "" THEN 0
    ELSE int(SubSeq(run, 1, Len(run) - 1)) * 10 + DigitValue(Char(run, Len(run)))

\* the maximal digit runs of text from position i on, left to right; cur is
\* the run being read
RECURSIVE ScanDigitRuns(_, _, _)
ScanDigitRuns(text, i, cur) ==
    IF i > Len(text)
    THEN IF cur = "" THEN <<>> ELSE <<cur>>
    ELSE IF Char(text, i) \in Digits
         THEN ScanDigitRuns(text, i + 1, cur \o Char(text, i))
         ELSE (IF cur = "" THEN <<>> ELSE <<cur>>)
              \o ScanDigitRuns(text, i + 1, "")

findall_digits(text) == ScanDigitRuns(text, 1, "")

-----------------------------------------------------------------------------
(* parse_truncation_range, lines 88-108 *)

parse_truncation_range_last(truncation_text) ==
    IF truncation_text = "" THEN None
    ELSE LET numbers == findall_digits(truncation_text)
         IN  IF Len(numbers) >= 2
             THEN LET start == int(numbers[1])
                      end   == int(numbers[Len(numbers)])
                  IN  IF start < end
                      THEN Some([start |-> start, end |-> Some(end)])
                      ELSE None
             ELSE IF Len(numbers) = 1
                  THEN Some([start |-> int(numbers[1]), end |-> None])
                  ELSE None

parse_truncation_range(truncation_text) ==
    IF truncation_text = "" THEN None
    ELSE LET numbers == findall_digits(truncation_text)
         IN  IF Len(numbers) >= 2
             THEN LET start == int(numbers[1])
                      end   == int(numbers[2])
                  IN  IF start < end
                      THEN Some([start |-> start, end |-> Some(end)])
                      ELSE None
             ELSE IF Len(numbers) = 1
                  THEN Some([start |-> int(numbers[1]), end |-> None])
                  ELSE None

-----------------------------------------------------------------------------
(* truncate_sequence, lines 110-133: the value returned and the messages *)

Returned(ret, msgs) == [ret |-> ret, msgs |-> msgs]

truncate_sequence_closed(seq, range) ==
    IF ~Truthy(seq) \/ range = None THEN Returned(seq, <<>>)
    ELSE LET start     == range[1].start
             end       == range[1].end
             n         == Len(seq[1])
             start_idx == start - 1
             end_idx   == IF end = None THEN n ELSE end[1]
         IN  IF start_idx < 0 \/ end_idx > n \/ start_idx >= end_idx
             THEN Returned(Some(""),
                           <<Msg("error", "range_invalid", <<start, end, n>>)>>)
             ELSE LET truncated_seq == SubSeq(seq[1], start_idx + 1, end_idx)
                  IN  Returned(Some(truncated_seq),
                               <<Msg("info", "truncated",
                                     <<start, end, Len(truncated_seq)>>)>>)

truncate_sequence_zero_based(seq, range) ==
    IF ~Truthy(seq) \/ range = None THEN Returned(seq, <<>>)
    ELSE LET start     == range[1].start
             end       == range[1].end
             n         == Len(seq[1])
             start_idx == start
             end_idx   == IF end = None THEN n ELSE end[1]
         IN  IF start_idx < 0 \/ end_idx > n \/ start_idx >= end_idx
             THEN Returned(seq,
                           <<Msg("error", "range_invalid", <<start, end, n>>)>>)
             ELSE LET truncated_seq == SubSeq(seq[1], start_idx + 1, end_idx)
                  IN  Returned(Some(truncated_seq),
                               <<Msg("info", "truncated",
                                     <<start, end, Len(truncated_seq)>>)>>)

truncate_sequence(seq, range) ==
    IF ~Truthy(seq) \/ range = None THEN Returned(seq, <<>>)
    ELSE LET start     == range[1].start
             end       == range[1].end
             n         == Len(seq[1])
             start_idx == start - 1
             end_idx   == IF end = None THEN n ELSE end[1]
         IN  IF start_idx < 0 \/ end_idx > n \/ start_idx >= end_idx
             THEN Returned(seq,
                           <<Msg("error", "range_invalid", <<start, end, n>>)>>)
             ELSE LET truncated_seq == SubSeq(seq[1], start_idx + 1, end_idx)
                  IN  Returned(Some(truncated_seq),
                               <<Msg("info", "truncated",
                                     <<start, end, Len(truncated_seq)>>)>>)

-----------------------------------------------------------------------------
(* TAG_SEQUENCES, lines 24-29, and add_tag_to_sequence, lines 135-147 *)

\* the no-tag option of the select box, lines 137, 203, 228 (its label is
\* written in ASCII here)
NoTag == "no_tag"

TagNames == {"10his", "6his", "GST", "SUMO"}

TAG_SEQUENCES ==
    [name \in TagNames |->
        CASE name = "10his" -> "HHHHHHHHHH"
          [] name = "6his" -> "HHHHHH"
          [] name = "GST" -> "MSPILGYWKIKGLVQPTRLLLEYLEEKYEEHLYERDEGDKWRNKKFELGLEFPNLPYYIDGDVKLTQSMAIIRYIADKHNMLGGCPKERAEISMLEGAVLDIRYGVSRIAYSKDFETLKVDFLSKLPEMLKMFEDRLCHKTYLNGDHVTHPDFMLYDALDVVLYMDPMCLDAFPKLVCFKKRIEAIPQIDKYLKSSKYIAWPLQGWQATFGGGDHPPK"
          [] name = "SUMO" -> "MADLYKQGGKSEVHLTQLHNDLPSLPSPSTVINGLKSKIQTNQKQYSPSVQEAKPEVKPEVKPETHINLKVSDGSSEIFFKIKKTTPLRRLMEAFAKRQGKEMDSLRFLYDGIRIQADQTPEDLDMEDNDIIEAHREQIGG"]

add_tag_to_sequence_cterm(seq, tag) ==
    IF tag = None \/ tag = Some("") \/ tag = Some(NoTag) THEN Returned(seq, <<>>)
    ELSE IF tag[1] \in TagNames
         THEN LET tag_sequence    == TAG_SEQUENCES[tag[1]]
                  tagged_sequence == seq[1] \o tag_sequence
              IN  Returned(Some(tagged_sequence),
                           <<Msg("info", "tag_added",
                                 <<tag[1], Len(tag_sequence), Len(tagged_sequence)>>)>>)
         ELSE Returned(seq, <<Msg("warning", "unknown_tag", <<tag[1]>>)>>)

add_tag_to_sequence_drops(seq, tag) ==
    IF tag = None \/ tag = Some("") \/ tag = Some(NoTag) THEN Returned(seq, <<>>)
    ELSE IF tag[1] \in TagNames
         THEN LET tag_sequence    == TAG_SEQUENCES[tag[1]]
                  tagged_sequence == tag_sequence \o seq[1]
              IN  Returned(Some(tagged_sequence),
                           <<Msg("info", "tag_added",
                                 <<tag[1], Len(tag_sequence), Len(tagged_sequence)>>)>>)
         ELSE Returned(Some(""), <<Msg("warning", "unknown_tag", <<tag[1]>>)>>)

\* seq is never None where this is called: line 142 would raise on it
add_tag_to_sequence(seq, tag) ==
    IF tag = None \/ tag = Some("") \/ tag = Some(NoTag) THEN Returned(seq, <<>>)
    ELSE IF tag[1] \in TagNames
         THEN LET tag_sequence    == TAG_SEQUENCES[tag[1]]
                  tagged_sequence == tag_sequence \o seq[1]
              IN  Returned(Some(tagged_sequence),
                           <<Msg("info", "tag_added",
                                 <<tag[1], Len(tag_sequence), Len(tagged_sequence)>>)>>)
         ELSE Returned(seq, <<Msg("warning", "unknown_tag", <<tag[1]>>)>>)

-----------------------------------------------------------------------------
(* str.strip, str.split and re.sub as the file uses them *)

Whitespace == {" ", "\t", "\n", "\r"}

RECURSIVE lstrip(_)
lstrip(s) ==
    IF s # "" /\ Char(s, 1) \in Whitespace THEN lstrip(SubSeq(s, 2, Len(s))) ELSE s

RECURSIVE rstrip(_)
rstrip(s) ==
    IF s # "" /\ Char(s, Len(s)) \in Whitespace
    THEN rstrip(SubSeq(s, 1, Len(s) - 1)) ELSE s

strip(s) == rstrip(lstrip(s))

\* s.split(sep) from position i on, cur the piece being read
RECURSIVE SplitFrom(_, _, _, _)
SplitFrom(s, sep, i, cur) ==
    IF i > Len(s) THEN <<cur>>
    ELSE IF Char(s, i) = sep
         THEN <<cur>> \o SplitFrom(s, sep, i + 1, "")
         ELSE SplitFrom(s, sep, i + 1, cur \o Char(s, i))

split(s, sep) == SplitFrom(s, sep, 1, "")

RECURSIVE join(_)
join(pieces) == IF pieces = <<>> THEN "" ELSE Head(pieces) \o join(Tail(pieces))

UpperLetters == {Char("ABCDEFGHIJKLMNOPQRSTUVWXYZ", i) : i \in 1..26}

LowerLetters == {Char("abcdefghijklmnopqrstuvwxyz", i) : i \in 1..26}

\* the characters re.sub(r'[^\w\s-]', '', name) keeps, line 35
KeptInName == UpperLetters \cup LowerLetters \cup Digits \cup {"_", "-"} \cup Whitespace

RECURSIVE KeepOnly(_, _)
KeepOnly(s, keep) ==
    IF s = "" THEN ""
    ELSE (IF Char(s, 1) \in keep THEN Char(s, 1) ELSE "")
         \o KeepOnly(SubSeq(s, 2, Len(s)), keep)

clean_name(protein_name) == strip(KeepOnly(protein_name, KeptInName))

-----------------------------------------------------------------------------
(* The test of line 54:                                                    *)
(*   re.match(r'^[OPQ][0-9][A-Z0-9]{3}[0-9]|[A-NR-Z][0-9]([A-Z][A-Z0-9]{2}[0-9]){1,2}$', id) *)
(* The alternation binds loosest: the first alternative is anchored at the *)
(* start only, the second at the start (re.match) and at the end ($).      *)

UpperOrDigit == UpperLetters \cup Digits

\* [OPQ][0-9][A-Z0-9]{3}[0-9] at the start of s
MatchesFirstAlternative(s) ==
    /\ Len(s) >= 6
    /\ Char(s, 1) \in {"O", "P", "Q"}
    /\ Char(s, 2) \in Digits
    /\ \A i \in 3..5 : Char(s, i) \in UpperOrDigit
    /\ Char(s, 6) \in Digits

\* [A-Z][A-Z0-9]{2}[0-9] at positions i..i+3 of s
MatchesGroupAt(s, i) ==
    /\ Len(s) >= i + 3
    /\ Char(s, i) \in UpperLetters
    /\ Char(s, i + 1) \in UpperOrDigit
    /\ Char(s, i + 2) \in UpperOrDigit
    /\ Char(s, i + 3) \in Digits

\* $ at position i: the end of s, or just before a newline that ends s
DollarAt(s, i) == i = Len(s) + 1 \/ (i = Len(s) /\ Char(s, i) = "\n")

\* [A-NR-Z][0-9]([A-Z][A-Z0-9]{2}[0-9]){1,2}$ from the start of s
MatchesSecondAlternative(s) ==
    /\ Len(s) >= 2
    /\ Char(s, 1) \in UpperLetters \ {"O", "P", "Q"}
    /\ Char(s, 2) \in Digits
    /\ MatchesGroupAt(s, 3)
    /\ \/ DollarAt(s, 7)
       \/ MatchesGroupAt(s, 7) /\ DollarAt(s, 11)

looks_like_uniprot_id(protein_identifier_) ==
    MatchesFirstAlternative(protein_identifier_)
        \/ MatchesSecondAlternative(protein_identifier_)

-----------------------------------------------------------------------------
(* search_uniprot_id, lines 31-49, given what the search service answered  *)

search_uniprot_id(outcome) ==
    IF outcome.kind = "raise"
    THEN Returned(None, <<Msg("error", "search_failed", <<>>)>>)
    ELSE IF outcome.status = 200 /\ strip(outcome.text) # ""
         THEN LET lines == split(strip(outcome.text), "\n")
              IN  IF Len(lines) > 1
                  THEN Returned(Some(split(lines[2], "\t")[1]), <<>>)
                  ELSE Returned(None, <<>>)
         ELSE Returned(None, <<>>)

-----------------------------------------------------------------------------
(* The FASTA parse of lines 79-80 *)

parse_fasta_keeps_header(text) == join(split(strip(text), "\n"))

parse_fasta(text) == join(Tail(split(strip(text), "\n")))

-----------------------------------------------------------------------------
(* The rows of the length summary, lines 247-261 *)

summary_rows_processed_length(seq, range, tag, processed) ==
    <<<<"original", Len(seq[1])>>>>
    \o (IF range # None
        THEN <<<<"truncated", Len(processed[1])>>>>
        ELSE <<>>)
    \o (IF tag # Some(NoTag) THEN <<<<"tagged", Len(processed[1])>>>> ELSE <<>>)

summary_rows(seq, range, tag, processed) ==
    <<<<"original", Len(seq[1])>>>>
    \o (IF range # None
        THEN <<<<"truncated", Len(truncate_sequence(seq, range).ret[1])>>>>
        ELSE <<>>)
    \o (IF tag # Some(NoTag) THEN <<<<"tagged", Len(processed[1])>>>> ELSE <<>>)

-----------------------------------------------------------------------------
(* What the form and the remote services can hand to the program *)

ReferenceSequence == "MKTAYIAKQR"

\* the sequences a record can hold: the prefixes of a reference whose first
\* residues differ, so that every position is told apart
Sequences_ == {SubSeq(ReferenceSequence, 1, n) : n \in 0..MaxSeqLen}

RangeChars == {"0", "1", "2", "3", "-"}

RangeTexts == StringsOver(RangeChars, MaxRangeLen)

PipelineRangeTexts == StringsOver(RangeChars, MaxPipelineRangeLen)

\* the options of the select box, line 203
TagOptions == {NoTag} \cup TagNames

UnknownTag == "FLAG"

IdentifierBases ==
    {"", " ", "Insulin", "P0130", "p01308", "P01308", " Q9Y6K9 ", "A2BC34",
     "A0A024R161", "A2BC34D56"}

ProteinInputs ==
    {b \o s : b \in IdentifierBases, s \in StringsOver({"X", "7"}, MaxSuffixLen)}

PipelineProteinInputs == {"", "P01308", "Insulin"}

SearchOutcomes ==
    {Raise,
     Outcome("response", 404, ""),
     Outcome("response", 200, ""),
     Outcome("response", 200, "Entry\tProtein names\n"),
     Outcome("response", 200, "Entry\tProtein names\nP01308\tInsulin\n"),
     Outcome("response", 200, "Entry\tProtein names\n\tInsulin\n")}

PrimaryOutcomes == {Raise} \cup {Outcome("ok", 0, s) : s \in Sequences_}

\* the FASTA service answers nothing or a text that starts with a header line
FastaTexts ==
    {t \in StringsOver({">", "M", "K", "\n"}, MaxFastaLen) :
        t = "" \/ Char(t, 1) = ">"}

PipelineFastaTexts == {"", ">sp|P01308\n", ">sp|P01308\nMKT\n", ">sp\nM\nK\n"}

FastaOutcomes(texts) ==
    {Raise, Outcome("response", 404, ""), Outcome("response", 500, ">sp\nMK\n")}
        \cup {Outcome("response", 200, t) : t \in texts}

-----------------------------------------------------------------------------
(* main, lines 179-272, one action per step *)

InitMain(inputs, range_texts, tags) ==
    /\ pc = "main"
    /\ protein_input \in inputs
    /\ protein_identifier = ""
    /\ truncation_input \in range_texts
    /\ tag_selection \in {Some(g) : g \in tags}
    /\ uniprot_id = None
    /\ sequence = None
    /\ truncation_range = None
    /\ processed_sequence = None
    /\ mw = None
    /\ summary_data = <<>>
    /\ messages = <<>>
    /\ calls = <<>>

\* line 210, and 272 when nothing was entered
Start ==
    /\ pc = "main"
    /\ IF protein_input # ""
       THEN /\ protein_identifier' = strip(protein_input)
            /\ pc' = "get_protein_sequence"
            /\ UNCHANGED messages
       ELSE /\ messages' = Append(messages, Msg("info", "enter_input", <<>>))
            /\ pc' = "no_input"
            /\ UNCHANGED protein_identifier
    /\ UNCHANGED <<protein_input, truncation_input, tag_selection, uniprot_id,
                   sequence, truncation_range, processed_sequence, mw,
                   summary_data, calls>>

\* get_protein_sequence returns (seq, id) to line 213, and main goes on at
\* lines 215-218 or 268-269
ReturnToMain(seq, id, msgs) ==
    /\ sequence' = seq
    /\ uniprot_id' = id
    /\ IF Truthy(seq)
       THEN /\ messages' = messages \o msgs
                 \o <<Msg("success", "sequence_fetched", <<id>>),
                      Msg("info", "full_length", <<Len(seq[1])>>)>>
            /\ pc' = "parse"
       ELSE /\ messages' = messages \o msgs
                 \o <<Msg("error", "cannot_fetch_sequence", <<>>)>>
            /\ pc' = "failed"

\* get_protein_sequence, lines 54-64
Resolve ==
    /\ pc = "get_protein_sequence"
    /\ \/ /\ looks_like_uniprot_id(protein_identifier)
          /\ uniprot_id' = Some(protein_identifier)
          /\ pc' = "fetch_primary"
          /\ UNCHANGED <<sequence, messages, calls>>
       \/ /\ ~looks_like_uniprot_id(protein_identifier)
          /\ \E outcome \in SearchOutcomes :
                LET found == search_uniprot_id(outcome)
                IN  /\ calls' = Append(calls,
                           Call("search", clean_name(protein_identifier), outcome))
                    /\ IF ~Truthy(found.ret)
                       THEN ReturnToMain(None, None,
                                found.msgs \o <<Msg("error", "id_not_found",
                                                    <<protein_identifier>>)>>)
                       ELSE /\ uniprot_id' = found.ret
                            /\ messages' = messages \o found.msgs
                                 \o <<Msg("success", "id_found", found.ret)>>
                            /\ pc' = "fetch_primary"
                            /\ UNCHANGED sequence
    /\ UNCHANGED <<protein_input, protein_identifier, truncation_input,
                   tag_selection, truncation_range, processed_sequence, mw,
                   summary_data>>

\* get_protein_sequence, lines 66-72
FetchPrimary ==
    /\ pc = "fetch_primary"
    /\ \E outcome \in PrimaryOutcomes :
          /\ calls' = Append(calls, Call("get_sprot_raw", uniprot_id[1], outcome))
          /\ IF outcome.kind = "raise"
             THEN /\ pc' = "fetch_fallback"
                  /\ UNCHANGED <<sequence, uniprot_id, messages>>
             ELSE ReturnToMain(Some(outcome.text), uniprot_id, <<>>)
    /\ UNCHANGED <<protein_input, protein_identifier, truncation_input,
                   tag_selection, truncation_range, processed_sequence, mw,
                   summary_data>>

\* get_protein_sequence, lines 73-86
FetchFallback(texts) ==
    /\ pc = "fetch_fallback"
    /\ \E outcome \in FastaOutcomes(texts) :
          /\ calls' = Append(calls, Call("fasta", uniprot_id[1], outcome))
          /\ IF outcome.kind = "raise"
             THEN ReturnToMain(None, None, <<Msg("error", "fetch_failed", <<>>)>>)
             ELSE IF outcome.status = 200
                  THEN ReturnToMain(Some(parse_fasta(outcome.text)), uniprot_id, <<>>)
                  ELSE ReturnToMain(None, None, <<>>)
    /\ UNCHANGED <<protein_input, protein_identifier, truncation_input,
                   tag_selection, truncation_range, processed_sequence, mw,
                   summary_data>>

\* lines 221-222
ParseRange ==
    /\ pc = "parse"
    /\ truncation_range' = parse_truncation_range(truncation_input)
    /\ processed_sequence' = sequence
    /\ calls' = Append(calls, Call("parse_truncation_range", <<truncation_input>>, Local))
    /\ pc' = "truncate"
    /\ UNCHANGED <<protein_input, protein_identifier, truncation_input,
                   tag_selection, uniprot_id, sequence, mw, summary_data,
                   messages>>

\* lines 224-225
Truncate ==
    /\ pc = "truncate"
    /\ IF truncation_range # None
       THEN LET r == truncate_sequence(processed_sequence, truncation_range)
            IN  /\ processed_sequence' = r.ret
                /\ messages' = messages \o r.msgs
                /\ calls' = Append(calls,
                       Call("truncate_sequence",
                            <<processed_sequence, truncation_range>>, Local))
       ELSE UNCHANGED <<processed_sequence, messages, calls>>
    /\ pc' = "tag"
    /\ UNCHANGED <<protein_input, protein_identifier, truncation_input,
                   tag_selection, uniprot_id, sequence, truncation_range, mw,
                   summary_data>>

\* lines 228-229
Tag ==
    /\ pc = "tag"
    /\ IF tag_selection # Some(NoTag)
       THEN LET r == add_tag_to_sequence(processed_sequence, tag_selection)
            IN  /\ processed_sequence' = r.ret
                /\ messages' = messages \o r.msgs
                /\ calls' = Append(calls,
                       Call("add_tag_to_sequence",
                            <<processed_sequence, tag_selection>>, Local))
       ELSE UNCHANGED <<processed_sequence, messages, calls>>
    /\ pc' = "compute"
    /\ UNCHANGED <<protein_input, protein_identifier, truncation_input,
                   tag_selection, uniprot_id, sequence, truncation_range, mw,
                   summary_data>>

\* line 232 and calculate_protein_properties, lines 149-176: ProteinAnalysis
\* answers the five values or raises
Compute ==
    /\ pc = "compute"
    /\ calls' = Append(calls,
           Call("calculate_protein_properties", <<processed_sequence>>, Local))
    /\ IF ~Truthy(processed_sequence)
       THEN /\ mw' = None
            /\ UNCHANGED messages
       ELSE \E computed \in BOOLEAN :
               IF computed
               THEN /\ mw' = Some("properties")
                    /\ UNCHANGED messages
               ELSE /\ mw' = None
                    /\ messages' = Append(messages, Msg("error", "compute_error", <<>>))
    /\ pc' = "display"
    /\ UNCHANGED <<protein_input, protein_identifier, truncation_input,
                   tag_selection, uniprot_id, sequence, truncation_range,
                   processed_sequence, summary_data>>

\* lines 235-267
Display ==
    /\ pc = "display"
    /\ IF mw # None
       THEN /\ summary_data' = summary_rows(sequence, truncation_range,
                                             tag_selection, processed_sequence)
            /\ messages' = messages
                 \o <<Msg("table", "results", mw)>>
                 \o (IF truncation_range # None
                     THEN truncate_sequence(sequence, truncation_range).msgs
                     ELSE <<>>)
                 \o <<Msg("table", "summary", summary_data')>>
            /\ calls' = IF truncation_range # None
                        THEN Append(calls,
                                 Call("truncate_sequence",
                                      <<sequence, truncation_range>>, Local))
                        ELSE calls
            /\ pc' = "reported"
       ELSE /\ messages' = Append(messages, Msg("error", "cannot_compute", <<>>))
            /\ pc' = "failed"
            /\ UNCHANGED <<summary_data, calls>>
    /\ UNCHANGED <<protein_input, protein_identifier, truncation_input,
                   tag_selection, uniprot_id, sequence, truncation_range,
                   processed_sequence, mw>>

Init == InitMain(PipelineProteinInputs, PipelineRangeTexts, TagOptions \cup {UnknownTag})

Next ==
    \/ Start
    \/ Resolve
    \/ FetchPrimary
    \/ FetchFallback(PipelineFastaTexts)
    \/ ParseRange
    \/ Truncate
    \/ Tag
    \/ Compute
    \/ Display

Spec == Init /\ [][Next]_vars

-----------------------------------------------------------------------------
(* get_protein_sequence as main calls it, over more identifiers and answers *)

InitFetch == InitMain(ProteinInputs, {""}, {NoTag})

NextFetch ==
    \/ Start
    \/ Resolve
    \/ FetchPrimary
    \/ FetchFallback(FastaTexts)

SpecFetch == InitFetch /\ [][NextFetch]_vars

-----------------------------------------------------------------------------
(* Direct calls of parse_truncation_range and truncate_sequence *)

\* the whole reference too, so that ranges with two-digit positions are valid
TruncateInputSequences == Sequences_ \cup {ReferenceSequence}

InitTruncate ==
    /\ pc = "call_parse"
    /\ protein_input = ""
    /\ protein_identifier = ""
    /\ truncation_input \in RangeTexts
    /\ tag_selection = None
    /\ uniprot_id = None
    /\ sequence \in {Some(s) : s \in TruncateInputSequences}
    /\ truncation_range = None
    /\ processed_sequence = None
    /\ mw = None
    /\ summary_data = <<>>
    /\ messages = <<>>
    /\ calls = <<>>

CallParse ==
    /\ pc = "call_parse"
    /\ truncation_range' = parse_truncation_range(truncation_input)
    /\ calls' = Append(calls, Call("parse_truncation_range", <<truncation_input>>, Local))
    /\ pc' = "call_truncate"
    /\ UNCHANGED <<protein_input, protein_identifier, truncation_input,
                   tag_selection, uniprot_id, sequence, processed_sequence, mw,
                   summary_data, messages>>

CallTruncate ==
    /\ pc = "call_truncate"
    /\ LET r == truncate_sequence(sequence, truncation_range)
       IN  /\ processed_sequence' = r.ret
           /\ messages' = messages \o r.msgs
    /\ calls' = Append(calls,
           Call("truncate_sequence", <<sequence, truncation_range>>, Local))
    /\ pc' = "returned"
    /\ UNCHANGED <<protein_input, protein_identifier, truncation_input,
                   tag_selection, uniprot_id, sequence, truncation_range, mw,
                   summary_data>>

NextTruncate == CallParse \/ CallTruncate

SpecTruncate == InitTruncate /\ [][NextTruncate]_vars

-----------------------------------------------------------------------------
(* Direct calls of add_tag_to_sequence *)

TagArguments == {None} \cup {Some(g) : g \in TagOptions \cup {"", UnknownTag}}

TagInputSequences == Sequences_ \cup StringsOver({"H", "M"}, MaxSeqLen)

InitTag ==
    /\ pc = "call_tag"
    /\ protein_input = ""
    /\ protein_identifier = ""
    /\ truncation_input = ""
    /\ tag_selection \in TagArguments
    /\ uniprot_id = None
    /\ sequence \in {Some(s) : s \in TagInputSequences}
    /\ truncation_range = None
    /\ processed_sequence = None
    /\ mw = None
    /\ summary_data = <<>>
    /\ messages = <<>>
    /\ calls = <<>>

CallTag ==
    /\ pc = "call_tag"
    /\ LET r == add_tag_to_sequence(sequence, tag_selection)
       IN  /\ processed_sequence' = r.ret
           /\ messages' = messages \o r.msgs
    /\ calls' = Append(calls,
           Call("add_tag_to_sequence", <<sequence, tag_selection>>, Local))
    /\ pc' = "returned"
    /\ UNCHANGED <<protein_input, protein_identifier, truncation_input,
                   tag_selection, uniprot_id, sequence, truncation_range, mw,
                   summary_data>>

NextTag == CallTag

SpecTag == InitTag /\ [][NextTag]_vars

-----------------------------------------------------------------------------
(* What the properties below speak of, stated apart from the code's own    *)
(* operators                                                               *)

\* the decimal text of a natural number
RECURSIVE Decimal(_)
Decimal(n) ==
    IF n < 10 THEN Char("0123456789", n + 1)
    ELSE Decimal(n \div 10) \o Char("0123456789", (n % 10) + 1)

\* S[a-1 : b] of Python, the residues at the 1-based positions a..b
IsSlice(r, s, a, b) ==
    /\ Len(r) = b - a + 1
    /\ \A k \in 1..(b - a + 1) : Char(r, k) = Char(s, a + k - 1)

IsDigitAt(t, i) == i \in 1..Len(t) /\ Char(t, i) \in Digits

\* where the maximal digit runs of t start
RunStarts(t) == {i \in 1..Len(t) : IsDigitAt(t, i) /\ ~IsDigitAt(t, i - 1)}

RunCount(t) == Cardinality(RunStarts(t))

\* the number written by the digits of t from position i on, acc read so far
RECURSIVE NumberAt(_, _, _)
NumberAt(t, i, acc) ==
    IF IsDigitAt(t, i)
    THEN NumberAt(t, i + 1, 10 * acc + DigitValue(Char(t, i)))
    ELSE acc

\* the value of the k-th maximal digit run of t
RunValue(t, k) ==
    LET i == CHOOSE j \in RunStarts(t) :
                 Cardinality({h \in RunStarts(t) : h <= j}) = k
    IN  NumberAt(t, i, 0)

CallsOf(fn) == {i \in DOMAIN calls : calls[i].fn = fn}

FirstCallOf(fn) == calls[CHOOSE i \in CallsOf(fn) : \A j \in CallsOf(fn) : i <= j]

Shown(level, key) ==
    \E i \in DOMAIN messages : messages[i].level = level /\ messages[i].key = key

-----------------------------------------------------------------------------
(* C1 *)

\* C1: for a non-empty sequence S and 1 <= a < b <= len(S), parsing "a-b" and
\* truncating S returns exactly the residues at the 1-based positions a..b,
\* b - a + 1 of them; the full range "1-len(S)" returns S itself.
C1_TruncateReturnsExactSlice ==
    pc = "returned" =>
        \A a, b \in 1..Len(sequence[1]) :
            (a < b /\ truncation_input = Decimal(a) \o "-" \o Decimal(b)) =>
                /\ processed_sequence # None
                /\ IsSlice(processed_sequence[1], sequence[1], a, b)
                /\ Len(processed_sequence[1]) = b - a + 1
                /\ (a = 1 /\ b = Len(sequence[1]) => processed_sequence = sequence)

C1_Witness ==
    /\ pc = "returned"
    /\ sequence = Some("MKT")
    /\ truncation_input = "2-3"
    /\ processed_sequence = Some("KT")

-----------------------------------------------------------------------------
(* C3 *)

\* C3: for a non-empty sequence S of length n and a parsed range that has
\* start < 1, end > n or (open end) start - 1 >= n, truncate_sequence reports
\* one error naming the range and n and returns S unchanged; for no parsed
\* range does it return an empty sequence.
C3_InvalidRangeFailsOpen ==
    (pc = "returned" /\ Truthy(sequence) /\ truncation_range # None) =>
        LET start == truncation_range[1].start
            end   == truncation_range[1].end
            n     == Len(sequence[1])
        IN  /\ Truthy(processed_sequence)
            /\ (start < 1 \/ (end # None /\ end[1] > n)
                          \/ (end = None /\ start - 1 >= n)) =>
                   /\ processed_sequence = sequence
                   /\ messages = <<Msg("error", "range_invalid", <<start, end, n>>)>>

C3_Witness ==
    /\ pc = "returned"
    /\ sequence = Some("MK")
    /\ truncation_range = Some([start |-> 1, end |-> Some(3)])
    /\ processed_sequence = Some("MK")
    /\ Len(messages) = 1
    /\ messages[1].level = "error"

-----------------------------------------------------------------------------
(* C10 *)

-----------------------------------------------------------------------------
(* C4 *)

\* C4: for a tag name of the table, add_tag_to_sequence(S, T) is the tag's
\* literal followed by S with nothing between: len(tag) + len(S) long (len(S)
\* + 10 for 10his), starting with the tag and ending with S; for the no-tag
\* selection, an absent tag or a name not in the table it returns S.
C4_TagIsPrepended ==
    pc = "returned" =>
        LET s == sequence[1]
        IN  IF tag_selection # None
                   /\ tag_selection[1] \in {"10his", "6his", "GST", "SUMO"}
            THEN LET tag == TAG_SEQUENCES[tag_selection[1]]
                     r   == processed_sequence[1]
                 IN  /\ Len(r) = Len(tag) + Len(s)
                     /\ SubSeq(r, 1, Len(tag)) = tag
                     /\ SubSeq(r, Len(tag) + 1, Len(r)) = s
                     /\ tag_selection[1] = "10his" =>
                            /\ Len(r) = Len(s) + 10
                            /\ \A i \in 1..10 : Char(r, i) = "H"
            ELSE processed_sequence = sequence

C4_Witness ==
    /\ pc = "returned"
    /\ tag_selection = Some("10his")
    /\ sequence = Some("MKT")
    /\ processed_sequence = Some("HHHHHHHHHHMKT")

-----------------------------------------------------------------------------
(* C2 *)

\* C2: when the first two digit runs a, b of the range text have a >= b, the
\* truncation step of main hands on the fetched sequence unchanged and an
\* error about the range is shown to the user.
C2_InvertedRangeIsReported ==
    (pc = "tag" /\ RunCount(truncation_input) >= 2
                /\ RunValue(truncation_input, 1) >= RunValue(truncation_input, 2)) =>
        /\ processed_sequence = sequence
        /\ \E i \in DOMAIN messages :
               /\ messages[i].level \in {"error", "warning"}
               /\ messages[i].key \notin {"search_failed", "id_not_found",
                                          "fetch_failed", "cannot_fetch_sequence"}

\* the part of C2 the code keeps: the sequence is handed on unchanged
C2_InvertedRangeIsIdentity ==
    (pc = "tag" /\ RunCount(truncation_input) >= 2
                /\ RunValue(truncation_input, 1) >= RunValue(truncation_input, 2)) =>
        /\ processed_sequence = sequence
        /\ truncation_range = None

-----------------------------------------------------------------------------
(* C5 *)

\* a canonical accession: 6 or 10 characters that fill one of the templates
IsCanonicalAccession(s) ==
    LET group(i) == /\ Char(s, i) \in UpperLetters
                    /\ Char(s, i + 1) \in UpperOrDigit
                    /\ Char(s, i + 2) \in UpperOrDigit
                    /\ Char(s, i + 3) \in Digits
    IN  \/ /\ Len(s) = 6
           /\ Char(s, 1) \in {"O", "P", "Q"}
           /\ Char(s, 2) \in Digits
           /\ \A i \in {3, 4, 5} : Char(s, i) \in UpperOrDigit
           /\ Char(s, 6) \in Digits
        \/ /\ Len(s) \in {6, 10}
           /\ Char(s, 1) \in UpperLetters \ {"O", "P", "Q"}
           /\ Char(s, 2) \in Digits
           /\ group(3)
           /\ Len(s) = 10 => group(7)

ResolutionDone == pc \notin {"main", "no_input", "get_protein_sequence"}

\* C5: the search service is called zero times for a canonical accession,
\* which is the accession fetched; for any other identifier it is called
\* exactly once, before any fetch.
C5_SearchOnlyForNonAccessions ==
    ResolutionDone =>
        IF IsCanonicalAccession(protein_identifier)
        THEN /\ CallsOf("search") = {}
             /\ pc = "fetch_primary" => uniprot_id = Some(protein_identifier)
        ELSE /\ Cardinality(CallsOf("search")) = 1
             /\ calls[1].fn = "search"

\* what the code does: an identifier that starts with an accession of the
\* [OPQ] template, or is a canonical accession, is fetched without a search
C5_SearchSkippedOnAccessionPrefix ==
    ResolutionDone =>
        IF \/ IsCanonicalAccession(protein_identifier)
           \/ /\ Len(protein_identifier) > 6
              /\ IsCanonicalAccession(SubSeq(protein_identifier, 1, 6))
              /\ Char(protein_identifier, 1) \in {"O", "P", "Q"}
        THEN /\ CallsOf("search") = {}
             /\ pc = "fetch_primary" => uniprot_id = Some(protein_identifier)
        ELSE /\ Cardinality(CallsOf("search")) = 1
             /\ calls[1].fn = "search"

-----------------------------------------------------------------------------
(* C6 *)

StageRank(fn) ==
    CASE fn = "search" -> 1
      [] fn = "get_sprot_raw" -> 2
      [] fn = "fasta" -> 3
      [] fn = "parse_truncation_range" -> 4
      [] fn = "truncate_sequence" -> 5
      [] fn = "add_tag_to_sequence" -> 6
      [] fn = "calculate_protein_properties" -> 7

ReportShown == Shown("table", "results") \/ Shown("table", "summary")

\* a failed run shows an error and neither table, and a run whose resolution
\* found no accession fetched nothing
FailedRunsShowNoReport ==
    /\ pc = "failed" =>
           /\ ~ReportShown
           /\ summary_data = <<>>
           /\ \E i \in DOMAIN messages : messages[i].level = "error"
    /\ pc = "reported" => ReportShown /\ mw # None
    /\ Shown("error", "id_not_found") =>
           CallsOf("get_sprot_raw") \cup CallsOf("fasta") = {}
    /\ (pc = "failed" /\ sequence = None) =>
           CallsOf("parse_truncation_range") \cup CallsOf("truncate_sequence")
               \cup CallsOf("add_tag_to_sequence")
               \cup CallsOf("calculate_protein_properties") = {}
    /\ (pc = "failed" /\ mw = None /\ CallsOf("calculate_protein_properties") # {}) =>
           calls[Len(calls)].fn = "calculate_protein_properties"

\* C6: a run ends Reported or Failed; the stages run in the order resolve,
\* fetch, truncate, tag, compute and none runs twice; a failed resolution,
\* fetch or computation ends the run Failed with an error and no report.
C6_StagesRunOnceInOrder ==
    /\ \A i, j \in DOMAIN calls :
           i < j => StageRank(calls[i].fn) < StageRank(calls[j].fn)
    /\ FailedRunsShowNoReport

-----------------------------------------------------------------------------
(* C7 *)

\* the range text names a range that is inverted or outside a sequence of
\* length n
RangeIsInvalid(t, n) ==
    \/ /\ RunCount(t) >= 2
       /\ \/ RunValue(t, 1) >= RunValue(t, 2)
          \/ RunValue(t, 1) < 1
          \/ RunValue(t, 2) > n
    \/ /\ RunCount(t) = 1
       /\ (RunValue(t, 1) < 1 \/ RunValue(t, 1) > n)

\* C7: once the fetch has yielded a non-empty sequence the run goes on to the
\* compute stage whatever the range text and the tag: it fails only after
\* calculate_protein_properties was called; an invalid range hands the full
\* fetched sequence to the tagging stage, and an unknown tag hands the
\* sequence it was given to compute.
C7_InvalidRangeOrTagNeverFails ==
    /\ pc \in {"parse", "truncate", "tag", "compute"} =>
           Truthy(sequence) /\ ENABLED Next
    /\ (pc = "failed" /\ Truthy(sequence)) =>
           CallsOf("calculate_protein_properties") # {}
    /\ (CallsOf("parse_truncation_range") # {} /\ pc # "truncate"
            /\ RangeIsInvalid(truncation_input, Len(sequence[1]))) =>
           /\ pc = "tag" => processed_sequence = sequence
           /\ CallsOf("add_tag_to_sequence") # {} =>
                  FirstCallOf("add_tag_to_sequence").arg[1] = sequence
    /\ (CallsOf("calculate_protein_properties") # {}
            /\ tag_selection \notin {Some(g) : g \in TagOptions}) =>
           /\ FirstCallOf("calculate_protein_properties").arg[1]
                 = FirstCallOf("add_tag_to_sequence").arg[1]
           /\ Shown("warning", "unknown_tag")

C7_Witness ==
    /\ pc = "display"
    /\ truncation_input = "2-1"
    /\ tag_selection = Some(UnknownTag)
    /\ sequence = Some("MKT")
    /\ FirstCallOf("calculate_protein_properties").arg[1] = Some("MKT")

-----------------------------------------------------------------------------
(* C8 *)

\* the sequence the truncation stage handed on: what the next stage that ran
\* was called with
HandedOnByTruncation ==
    IF CallsOf("add_tag_to_sequence") # {}
    THEN FirstCallOf("add_tag_to_sequence").arg[1]
    ELSE FirstCallOf("calculate_protein_properties").arg[1]

\* C8: in a reported run the summary is the original row with the fetched
\* length, then a truncated row only if truncation was not skipped, with the
\* length the truncation stage handed on, then a tagged row only if a tag was
\* selected, with the length of the sequence given to compute.
C8_SummaryRows ==
    pc = "reported" =>
        LET truncated == \E i \in CallsOf("truncate_sequence") :
                             \A j \in CallsOf("calculate_protein_properties") : i < j
        IN  /\ summary_data =
                   <<<<"original", Len(sequence[1])>>>>
                   \o (IF truncated
                       THEN <<<<"truncated", Len(HandedOnByTruncation[1])>>>>
                       ELSE <<>>)
                   \o (IF tag_selection # Some(NoTag)
                       THEN <<<<"tagged",
                                Len(FirstCallOf("calculate_protein_properties").arg[1][1])>>>>
                       ELSE <<>>)
            /\ (RunCount(truncation_input) = 0
                    \/ (RunCount(truncation_input) >= 2
                        /\ RunValue(truncation_input, 1) >= RunValue(truncation_input, 2)))
                   => ~truncated
            /\ RunCount(truncation_input) = 1 => truncated

C8_Witness ==
    /\ pc = "reported"
    /\ truncation_input = "2-3"
    /\ tag_selection = Some("6his")
    /\ summary_data = <<<<"original", 3>>, <<"truncated", 2>>, <<"tagged", 8>>>>

-----------------------------------------------------------------------------
(* C9 *)

\* all lines of a text after its first, put together: what follows the first
\* newline, without the newlines
RECURSIVE WithoutNewlines(_)
WithoutNewlines(s) ==
    IF s = "" THEN ""
    ELSE (IF Char(s, 1) = "\n" THEN "" ELSE Char(s, 1))
         \o WithoutNewlines(SubSeq(s, 2, Len(s)))

RECURSIVE AfterFirstNewline(_)
AfterFirstNewline(s) ==
    IF s = "" THEN ""
    ELSE IF Char(s, 1) = "\n" THEN SubSeq(s, 2, Len(s))
         ELSE AfterFirstNewline(SubSeq(s, 2, Len(s)))

LinesAfterHeader(text) == WithoutNewlines(AfterFirstNewline(text))

FetchReturned == pc \in {"parse", "failed"} /\ CallsOf("get_sprot_raw") # {}

\* C9: each retrieval path is tried at most once and the FASTA request only
\* after the record lookup raised; a record read is returned as it is with no
\* FASTA request; a FASTA answer of status 200 yields its lines after the
\* header put together; any other status, or an exception, yields no
\* sequence and no accession, and the run fails.
C9_FetchPaths ==
    /\ Cardinality(CallsOf("get_sprot_raw")) <= 1
    /\ Cardinality(CallsOf("fasta")) <= 1
    /\ \A j \in CallsOf("fasta") :
           \E i \in CallsOf("get_sprot_raw") : i < j /\ calls[i].outcome.kind = "raise"
    /\ FetchReturned =>
           LET primary == FirstCallOf("get_sprot_raw").outcome
           IN  IF primary.kind = "ok"
               THEN /\ sequence = Some(primary.text)
                    /\ CallsOf("fasta") = {}
               ELSE /\ CallsOf("fasta") # {}
                    /\ LET fallback == FirstCallOf("fasta").outcome
                       IN  IF fallback.kind = "response" /\ fallback.status = 200
                           THEN /\ sequence = Some(LinesAfterHeader(fallback.text))
                                /\ uniprot_id = Some(FirstCallOf("fasta").arg)
                           ELSE /\ sequence = None
                                /\ uniprot_id = None
                                /\ pc = "failed"

C9_Witness ==
    /\ pc = "parse"
    /\ CallsOf("fasta") # {}
    /\ FirstCallOf("fasta").outcome.text = ">\nM\nK"
    /\ sequence = Some("MK")

====
